---- MODULE Spec2Model ----
(***************************************************************************)
(* Model of src/data/cache.py: the in-memory response cache `Cache` with   *)
(* merge-on-write record lists, a shared per-ticker expiry, a size limit   *)
(* per cache dictionary, a single reentrant lock and disk snapshots.       *)
(*                                                                         *)
(* Python values are modelled as follows.                                  *)
(*   dict (a cache dictionary)  a sequence of entries [k |-> key, v |->    *)
(*                              value] in insertion order                  *)
(*   dict (_cache_expiry)       a function whose DOMAIN is the key set     *)
(*   list of records            a sequence of records                      *)
(*   Optional value             <<>> for None, <<x>> for the value x       *)
(*   datetime / timedelta       integers, one unit = one hour              *)
(***************************************************************************)
EXTENDS Integers, Sequences, FiniteSets, TLC

VARIABLES
    _cache,     \* the global Cache instance: its five dictionaries, _cache_expiry, _ttl
    now,        \* the wall clock read by datetime.now()
    disk,       \* the snapshot file at the path: None when there is no file
    fresh,      \* a second Cache instance created to load the snapshot into, or None
    last,       \* the call that finished last: what was called and what it gave back
    seen,       \* history: per (category, ticker) the dedup values in first-seen order
    latest,     \* history: per ticker the latest set call and the one before it
    inserted,   \* history: per category the tickers of the set calls, in call order
    modified,   \* history: the instance was called after the last save_to_disk
    workload,   \* the kind of calls the callers make in this run, fixed at the start
    lock,       \* self._lock, a threading.RLock: the owning thread and its hold count
    thr         \* per thread: where it is in the call it makes, the arguments, the locals

hist == <<seen, latest, inserted, modified, workload>>
conc == <<lock, thr>>
vars == <<_cache, now, disk, fresh, last, seen, latest, inserted, modified, workload, lock, thr>>

-----------------------------------------------------------------------------
(* Bounds of the model *)

MaxTime == 4        \* the clock runs over 0..MaxTime
MaxLen == 2         \* longest list of new records handed to a set call
ConcMaxTime == 2    \* the clock of the threaded specification runs over 0..ConcMaxTime
FrameMaxTime == 2   \* the clock of specification SpecFrame runs over 0..FrameMaxTime
MaxDepth == 2       \* deepest nesting of holds of the lock by one thread

-----------------------------------------------------------------------------
(* Program constants *)

\* Cache.MAX_CACHE_SIZE (10_000 in the source, scaled down)
MAX_CACHE_SIZE == 2

\* timedelta(hours=1), the TTL set by __init__ and the default of load_from_disk
DEFAULT_TTL_HOURS == 1

Categories == {"prices", "financial_metrics", "line_items", "insider_trades", "company_news"}

\* the attribute of the Cache instance that holds a category's dictionary
Attr(c) ==
    CASE c = "prices" -> "_prices_cache"
      [] c = "financial_metrics" -> "_financial_metrics_cache"
      [] c = "line_items" -> "_line_items_cache"
      [] c = "insider_trades" -> "_insider_trades_cache"
      [] c = "company_news" -> "_company_news_cache"

\* the key_field each set_* method passes to _merge_data
KeyField(c) ==
    CASE c = "prices" -> "time"
      [] c = "financial_metrics" -> "report_period"
      [] c = "line_items" -> "report_period"
      [] c = "insider_trades" -> "filing_date"
      [] c = "company_news" -> "date"

-----------------------------------------------------------------------------
(* Inputs *)

Tickers == {"AAPL", "MSFT", "NVDA"}
Threads == {"T1", "T2"}
FieldValues == {1, 2}       \* values of the dedup field
Payloads == {10, 20}        \* values of the other field of a record

\* a record of category c: a mapping with the category's dedup field and one more field
Rec(c, id, p) ==
    CASE c = "prices" -> [time |-> id, value |-> p]
      [] c = "financial_metrics" -> [report_period |-> id, value |-> p]
      [] c = "line_items" -> [report_period |-> id, value |-> p]
      [] c = "insider_trades" -> [filing_date |-> id, value |-> p]
      [] c = "company_news" -> [date |-> id, value |-> p]

Records(c) == {Rec(c, id, p) : id \in FieldValues, p \in Payloads}

SeqsUpTo(S, n) == UNION {[1..m -> S] : m \in 0..n}

-----------------------------------------------------------------------------
(* Python built-ins *)

None == <<>>
Some(x) == <<x>>

EmptyDict == <<>>

\* a thread that is not inside a call of the cache
IdleThread ==
    [pc |-> "idle", op |-> "", cat |-> "", key |-> "", data |-> <<>>, hours |-> 0,
     ret |-> None, raised |-> "", buf |-> None, existing |-> None]

DictKeys(d) == {d[i].k : i \in DOMAIN d}

\* dict.get(key): None when the key is missing
DictGet(d, key) ==
    IF key \in DictKeys(d)
    THEN Some(d[CHOOSE i \in DOMAIN d : d[i].k = key].v)
    ELSE None

\* d[key] = value: a new key goes last, an existing key keeps its position
DictSet(d, key, value) ==
    IF key \in DictKeys(d)
    THEN [i \in DOMAIN d |-> IF d[i].k = key THEN [k |-> key, v |-> value] ELSE d[i]]
    ELSE Append(d, [k |-> key, v |-> value])

\* dict.pop(key, None)
DictPop(d, key) == SelectSeq(d, LAMBDA e : e.k # key)

\* d[key] = value and d.pop(key, None) on a dictionary whose order is never observed
MapSet(m, key, value) == [x \in DOMAIN m \cup {key} |-> IF x = key THEN value ELSE m[x]]
MapPop(m, key) == [x \in DOMAIN m \ {key} |-> m[x]]

\* dict.popitem(last=False): the built-in dict.popitem takes no keyword
\* arguments, so the call raises TypeError and removes nothing
DictPopitemLastFalse(d) == [dict |-> d, raised |-> "TypeError"]

-----------------------------------------------------------------------------
(* Cache: private helpers *)

\* Cache.__init__
NewCache ==
    [_prices_cache |-> EmptyDict,
     _financial_metrics_cache |-> EmptyDict,
     _line_items_cache |-> EmptyDict,
     _insider_trades_cache |-> EmptyDict,
     _company_news_cache |-> EmptyDict,
     _cache_expiry |-> <<>>,
     _ttl |-> DEFAULT_TTL_HOURS]

\* a variant of _merge_data that stores the new list in place of the old one
_merge_data_Overwrite(existing, new_data, key_field) == new_data

\* Cache._merge_data; existing is an Optional list
_merge_data(existing, new_data, key_field) ==
    IF existing = None \/ existing[1] = <<>>
    THEN new_data
    ELSE LET ex == existing[1]
             existing_keys == {ex[i][key_field] : i \in DOMAIN ex}
         IN ex \o SelectSeq(new_data, LAMBDA item : item[key_field] \notin existing_keys)

\* the error that leaves Cache._merge_data ("" for none): when something is
\* stored, item[key_field] is read of every stored record and then of every
\* new one, and a record without that field raises KeyError
_merge_data_raised(existing, new_data, key_field) ==
    IF existing = None \/ existing[1] = <<>>
    THEN ""
    ELSE IF \/ \E i \in DOMAIN existing[1] : key_field \notin DOMAIN existing[1][i]
            \/ \E i \in DOMAIN new_data : key_field \notin DOMAIN new_data[i]
         THEN "KeyError"
         ELSE ""

\* Cache._is_expired, with t the value of datetime.now()
_is_expired(self, ticker, t) ==
    /\ ticker \in DOMAIN self._cache_expiry
    /\ t > self._cache_expiry[ticker]

\* for _ in range(n): cache.popitem(last=False); an error ends the loop
RECURSIVE PopOldest(_, _)
PopOldest(cache, n) ==
    IF n <= 0
    THEN [dict |-> cache, raised |-> ""]
    ELSE LET r == DictPopitemLastFalse(cache)
         IN IF r.raised # "" THEN r ELSE PopOldest(r.dict, n - 1)

\* Cache._enforce_size_limit: the dictionary afterwards and the error raised ("" for none)
_enforce_size_limit(cache) ==
    IF Len(cache) > MAX_CACHE_SIZE
    THEN PopOldest(cache, Len(cache) - MAX_CACHE_SIZE)
    ELSE [dict |-> cache, raised |-> ""]

-----------------------------------------------------------------------------
(* Cache: the bodies of the public methods, as functions of the instance.  *)
(* Each runs inside `with self._lock`.                                     *)

\* line 1 of a set_* body, the assignment: self._X_cache[ticker] = self._merge_data(existing, data, key_field)
SetAssign(self, c, ticker, existing, data) ==
    [self EXCEPT ![Attr(c)] = DictSet(@, ticker, _merge_data(existing, data, KeyField(c)))]

\* line 1 of a set_* body, with existing = self._X_cache.get(ticker)
SetMerge(self, c, ticker, data) ==
    SetAssign(self, c, ticker, DictGet(self[Attr(c)], ticker), data)

\* a variant of SetExpiry in which a ticker that has an expiry instant keeps it
SetExpiry_KeepFirst(self, ticker, t) ==
    IF ticker \in DOMAIN self._cache_expiry
    THEN self
    ELSE [self EXCEPT !._cache_expiry = MapSet(@, ticker, t + self._ttl)]

\* a variant of SetExpiry that renews the expiry instant of every ticker on record
SetExpiry_AllTickers(self, ticker, t) ==
    [self EXCEPT !._cache_expiry =
        [k \in DOMAIN @ \cup {ticker} |-> t + self._ttl]]

\* a variant of SetExpiry that adds the default TTL instead of the TTL in force
SetExpiry_DefaultTtl(self, ticker, t) ==
    [self EXCEPT !._cache_expiry = MapSet(@, ticker, t + DEFAULT_TTL_HOURS)]

\* line 2 of a set_* body: self._cache_expiry[ticker] = datetime.now() + self._ttl
SetExpiry(self, ticker, t) ==
    [self EXCEPT !._cache_expiry = MapSet(@, ticker, t + self._ttl)]

\* line 3 of a set_* body: self._enforce_size_limit(self._X_cache)
SetEnforce(self, c) ==
    LET e == _enforce_size_limit(self[Attr(c)])
    IN [self |-> [self EXCEPT ![Attr(c)] = e.dict], raised |-> e.raised]

\* a whole set_* body: the instance afterwards and the error that leaves the method
set_body(self, c, ticker, data, t) ==
    LET e == _merge_data_raised(DictGet(self[Attr(c)], ticker), data, KeyField(c))
    IN IF e # ""
       THEN [self |-> self, raised |-> e]
       ELSE SetEnforce(SetExpiry(SetMerge(self, c, ticker, data), ticker, t), c)

\* a variant of GetPopStore that drops the ticker from every category
GetPopStore_AllCategories(self, c, ticker) ==
    [self EXCEPT !._prices_cache = DictPop(@, ticker),
                 !._financial_metrics_cache = DictPop(@, ticker),
                 !._line_items_cache = DictPop(@, ticker),
                 !._insider_trades_cache = DictPop(@, ticker),
                 !._company_news_cache = DictPop(@, ticker)]

\* the expired branch of a get_* body: self._X_cache.pop(ticker, None)
GetPopStore(self, c, ticker) == [self EXCEPT ![Attr(c)] = DictPop(@, ticker)]

\* the expired branch of a get_* body: self._cache_expiry.pop(ticker, None)
GetPopExpiry(self, ticker) == [self EXCEPT !._cache_expiry = MapPop(@, ticker)]

\* the expired branch of a get_* body: the two pops
GetEvict(self, c, ticker) == GetPopExpiry(GetPopStore(self, c, ticker), ticker)

\* a variant of get_body in which a read that finds data renews the ticker's expiry
get_body_Touch(self, c, ticker, t) ==
    IF _is_expired(self, ticker, t)
    THEN [self |-> GetEvict(self, c, ticker), ret |-> None]
    ELSE [self |-> IF DictGet(self[Attr(c)], ticker) = None THEN self
                   ELSE SetExpiry(self, ticker, t),
          ret |-> DictGet(self[Attr(c)], ticker)]

\* a whole get_* body: the instance afterwards and the value returned
get_body(self, c, ticker, t) ==
    IF _is_expired(self, ticker, t)
    THEN [self |-> GetEvict(self, c, ticker), ret |-> None]
    ELSE [self |-> self, ret |-> DictGet(self[Attr(c)], ticker)]

\* a variant of set_ttl_body that also moves the recorded expiry instants to the new TTL
set_ttl_body_Retroactive(self, hours) ==
    [self EXCEPT !._ttl = hours,
                 !._cache_expiry = [k \in DOMAIN @ |-> @[k] - self._ttl + hours]]

\* Cache.set_ttl body: timedelta(hours=hours)
set_ttl_body(self, hours) == [self EXCEPT !._ttl = hours]

\* the dictionary save_to_disk hands to pickle.dump
Snapshot(self) ==
    [prices |-> self._prices_cache,
     financial_metrics |-> self._financial_metrics_cache,
     line_items |-> self._line_items_cache,
     insider_trades |-> self._insider_trades_cache,
     company_news |-> self._company_news_cache,
     expiry |-> self._cache_expiry,
     ttl |-> self._ttl]

\* a variant of LoadStores that keeps the entries the file does not have
LoadStores_KeepOwn(self, data) ==
    LET Keep(own, loaded) ==
            loaded \o SelectSeq(own, LAMBDA e : e.k \notin DictKeys(loaded))
    IN [self EXCEPT !._prices_cache = Keep(@, data.prices),
                    !._financial_metrics_cache = Keep(@, data.financial_metrics),
                    !._line_items_cache = Keep(@, data.line_items),
                    !._insider_trades_cache = Keep(@, data.insider_trades),
                    !._company_news_cache = Keep(@, data.company_news)]

\* load_from_disk: the five assignments of the dictionaries from the unpickled data
LoadStores(self, data) ==
    [self EXCEPT !._prices_cache = data.prices,
                 !._financial_metrics_cache = data.financial_metrics,
                 !._line_items_cache = data.line_items,
                 !._insider_trades_cache = data.insider_trades,
                 !._company_news_cache = data.company_news]

\* a variant of LoadRest that does not read the TTL from the file
LoadRest_DefaultTtl(self, data) ==
    [self EXCEPT !._cache_expiry = data.expiry,
                 !._ttl = DEFAULT_TTL_HOURS]

\* load_from_disk: the assignments of _cache_expiry and of _ttl = data.get("ttl", timedelta(hours=1))
LoadRest(self, data) ==
    [self EXCEPT !._cache_expiry = data.expiry,
                 !._ttl = IF "ttl" \in DOMAIN data THEN data.ttl ELSE DEFAULT_TTL_HOURS]

\* the file right after open(path, "wb"): it exists and has no bytes
EmptyFile == Some([bytes |-> 0])

IsEmptyFile(file) == file # None /\ DOMAIN file[1] = {"bytes"}

\* load_from_disk: the error that leaves the method. FileNotFoundError is caught;
\* pickle.load of a file without bytes raises EOFError, which is not
load_raised(file) == IF IsEmptyFile(file) THEN "EOFError" ELSE ""

\* a variant of load_body in which a missing file leaves an empty cache
load_body_ResetOnMissing(self, file) ==
    IF file = None
    THEN NewCache
    ELSE IF IsEmptyFile(file)
    THEN self
    ELSE LoadRest(LoadStores(self, file[1]), file[1])

\* Cache.load_from_disk body; file is None when open() raises FileNotFoundError,
\* which the method catches and passes; when pickle.load raises, nothing has
\* been assigned
load_body(self, file) ==
    IF file = None \/ IsEmptyFile(file)
    THEN self
    ELSE LoadRest(LoadStores(self, file[1]), file[1])

-----------------------------------------------------------------------------
(* The public methods, each call as one step (the lock makes a call atomic) *)

Finish(op, c, key, ret, raised) ==
    /\ last' = [op |-> op, cat |-> c, key |-> key, at |-> now, ret |-> ret, raised |-> raised]
    /\ UNCHANGED conc

\* the state after `_cache = Cache()`, before any call; w is the workload of
\* the run and file what the path of save_to_disk and load_from_disk holds
Start(w, file) ==
    /\ _cache = NewCache
    /\ now = 0
    /\ disk = file
    /\ fresh = None
    /\ last = [op |-> "init", cat |-> "", key |-> "", at |-> 0, ret |-> None, raised |-> ""]
    /\ seen = [c \in Categories |-> [k \in Tickers |-> <<>>]]
    /\ latest = [k \in Tickers |-> None]
    /\ inserted = [c \in Categories |-> <<>>]
    /\ modified = TRUE
    /\ workload = w
    /\ lock = [owner |-> "", count |-> 0]
    /\ thr = [t \in Threads |-> IdleThread]

Init == Start("any", None)

Get(c, ticker) ==
    LET r == get_body(_cache, c, ticker, now)
    IN /\ _cache' = r.self
       /\ Finish("get", c, ticker, r.ret, "")
       /\ UNCHANGED <<now, disk, fresh>>

Set(c, ticker, data) ==
    LET r == set_body(_cache, c, ticker, data, now)
    IN /\ _cache' = r.self
       /\ Finish("set", c, ticker, None, r.raised)
       /\ UNCHANGED <<now, disk, fresh>>

get_prices(ticker) == Get("prices", ticker)
set_prices(ticker, data) == Set("prices", ticker, data)
get_financial_metrics(ticker) == Get("financial_metrics", ticker)
set_financial_metrics(ticker, data) == Set("financial_metrics", ticker, data)
get_line_items(ticker) == Get("line_items", ticker)
set_line_items(ticker, data) == Set("line_items", ticker, data)
get_insider_trades(ticker) == Get("insider_trades", ticker)
set_insider_trades(ticker, data) == Set("insider_trades", ticker, data)
get_company_news(ticker) == Get("company_news", ticker)
set_company_news(ticker, data) == Set("company_news", ticker, data)

set_ttl(hours) ==
    /\ _cache' = set_ttl_body(_cache, hours)
    /\ Finish("set_ttl", "", "", None, "")
    /\ UNCHANGED <<now, disk, fresh>>

save_to_disk ==
    /\ disk' = Some(Snapshot(_cache))
    /\ Finish("save", "", "", None, "")
    /\ UNCHANGED <<_cache, now, fresh>>

load_from_disk ==
    /\ _cache' = load_body(_cache, disk)
    /\ Finish("load", "", "", None, load_raised(disk))
    /\ UNCHANGED <<now, disk, fresh>>

\* Cache().load_from_disk(path): a second instance is created and loads the snapshot
load_into_fresh ==
    /\ fresh' = Some(load_body(NewCache, disk))
    /\ Finish("load_fresh", "", "", None, load_raised(disk))
    /\ UNCHANGED <<_cache, now, disk>>

\* time passes between calls, up to the instant n
TickUpTo(n) ==
    /\ now < n
    /\ now' = now + 1
    /\ UNCHANGED <<_cache, disk, fresh, last, lock, thr>>

Tick == TickUpTo(MaxTime)

-----------------------------------------------------------------------------
(* History kept beside the program state. Each formula below is conjoined  *)
(* to the calls of a specification and reads the call from last'.          *)

\* the values of a list's dedup field, each once, in order of first appearance
RECURSIVE FirstSeen(_, _)
\* the list a dictionary holds for a ticker, empty when there is none
ListOf(d, k) == IF DictGet(d, k) = None THEN <<>> ELSE DictGet(d, k)[1]

FirstSeen(list, key_field) ==
    IF list = <<>>
    THEN <<>>
    ELSE LET front == FirstSeen(SubSeq(list, 1, Len(list) - 1), key_field)
             x == list[Len(list)][key_field]
         IN IF \E i \in DOMAIN front : front[i] = x THEN front ELSE Append(front, x)

FieldsOf(list, key_field) == [i \in DOMAIN list |-> list[i][key_field]]

\* the call was a get that found the ticker expired
ExpiredGet == last'.op = "get" /\ _is_expired(_cache, last'.key, now)

\* seen: a set adds the new dedup values of data; an expired get empties the list
TrackSeen(data) ==
    seen' = IF last'.op = "set"
            THEN LET old == seen[last'.cat][last'.key]
                     new == FirstSeen(data, KeyField(last'.cat))
                 IN [seen EXCEPT ![last'.cat][last'.key] =
                       old \o SelectSeq(new, LAMBDA x : \A i \in DOMAIN old : old[i] # x)]
            ELSE IF ExpiredGet
            THEN [seen EXCEPT ![last'.cat][last'.key] = <<>>]
            ELSE seen

\* latest: a set records its data and the list stored when it was called
TrackCall(data) ==
    latest' = IF last'.op = "set"
              THEN [latest EXCEPT ![last'.key] =
                      Some([cat |-> last'.cat, data |-> data,
                            before |-> ListOf(_cache[Attr(last'.cat)], last'.key)])]
              ELSE latest

\* latest: the records handed to the set calls of a ticker since its expiry
\* instant last passed; a set on a ticker that has no expiry instant, or whose
\* expiry instant has passed, starts the collection anew
TrackLive(data) ==
    latest' = IF last'.op = "set"
              THEN LET k == last'.key
                       given == {data[i] : i \in DOMAIN data}
                       lapsed == \/ k \notin DOMAIN _cache._cache_expiry
                                 \/ now > _cache._cache_expiry[k]
                                 \/ latest[k] = None
                   IN [latest EXCEPT ![k] =
                         Some([recs |-> IF lapsed THEN given ELSE latest[k][1].recs \cup given])]
              ELSE latest

\* latest: a set records itself and the set before it; a get is counted
TrackLatest ==
    latest' = IF last'.op = "set"
              THEN [latest EXCEPT ![last'.key] =
                      Some([cat |-> last'.cat, at |-> now, ttl |-> _cache._ttl,
                            list |-> DictGet(_cache'[Attr(last'.cat)], last'.key),
                            before |-> IF @ = None THEN None
                                       ELSE Some([cat |-> @[1].cat, at |-> @[1].at,
                                                  ttl |-> @[1].ttl, list |-> @[1].list]),
                            gets |-> 0])]
              ELSE IF last'.op = "get" /\ latest[last'.key] # None
              THEN [latest EXCEPT ![last'.key] =
                      Some([@[1] EXCEPT !.gets = IF @ = 0 THEN 1 ELSE 2])]
              ELSE latest

\* the same without the set before: enough where only the latest set matters
TrackLatestOnly ==
    latest' = IF last'.op = "set"
              THEN [latest EXCEPT ![last'.key] =
                      Some([cat |-> last'.cat, at |-> now, ttl |-> _cache._ttl,
                            list |-> DictGet(_cache'[Attr(last'.cat)], last'.key),
                            before |-> None, gets |-> 0])]
              ELSE latest

\* inserted: the tickers handed to set, in call order (at most MAX_CACHE_SIZE + 2 kept)
TrackInserted ==
    inserted' = IF last'.op = "set"
                THEN [inserted EXCEPT ![last'.cat] =
                        IF Len(@) <= MAX_CACHE_SIZE + 1 THEN Append(@, last'.key) ELSE @]
                ELSE IF ExpiredGet
                THEN [inserted EXCEPT ![last'.cat] = SelectSeq(@, LAMBDA x : x # last'.key)]
                ELSE inserted

\* modified: FALSE from a save_to_disk until the next call on the instance
TrackModified ==
    modified' = IF last'.op = "save" THEN FALSE
                ELSE IF last'.op = "load_fresh" THEN modified
                ELSE TRUE

-----------------------------------------------------------------------------
(* Specification Spec: expiry. One ticker, all five categories, the TTL,   *)
(* the clock.                                                              *)

ExpiryTickers == {"AAPL"}
ExpiryData(c) == {<<Rec(c, 1, 10)>>}

HoursChoices == {1, 2}

ExpiryHist == TrackLatestOnly /\ UNCHANGED <<seen, inserted, modified, workload>>

Next ==
    \/ (\E k \in ExpiryTickers : get_prices(k)) /\ ExpiryHist
    \/ (\E k \in ExpiryTickers : \E d \in ExpiryData("prices") : set_prices(k, d)) /\ ExpiryHist
    \/ (\E k \in ExpiryTickers : get_financial_metrics(k)) /\ ExpiryHist
    \/ (\E k \in ExpiryTickers : \E d \in ExpiryData("financial_metrics") :
           set_financial_metrics(k, d)) /\ ExpiryHist
    \/ (\E k \in ExpiryTickers : get_line_items(k)) /\ ExpiryHist
    \/ (\E k \in ExpiryTickers : \E d \in ExpiryData("line_items") : set_line_items(k, d))
          /\ ExpiryHist
    \/ (\E k \in ExpiryTickers : get_insider_trades(k)) /\ ExpiryHist
    \/ (\E k \in ExpiryTickers : \E d \in ExpiryData("insider_trades") :
           set_insider_trades(k, d)) /\ ExpiryHist
    \/ (\E k \in ExpiryTickers : get_company_news(k)) /\ ExpiryHist
    \/ (\E k \in ExpiryTickers : \E d \in ExpiryData("company_news") : set_company_news(k, d))
          /\ ExpiryHist
    \/ (\E h \in HoursChoices : set_ttl(h)) /\ UNCHANGED hist
    \/ Tick /\ UNCHANGED hist

Spec == Init /\ [][Next]_vars

-----------------------------------------------------------------------------
(* Specification SpecMerge: merging. One ticker, two categories, every     *)
(* list of at most MaxLen records as new data.                             *)

MergeTickers == {"AAPL"}
MergeData(c) == SeqsUpTo(Records(c), MaxLen)

NextMerge ==
    \/ \E k \in MergeTickers : \E d \in MergeData("prices") :
          set_prices(k, d) /\ TrackSeen(d) /\ UNCHANGED <<latest, inserted, modified, workload>>
    \/ \E k \in MergeTickers : \E d \in MergeData("company_news") :
          set_company_news(k, d) /\ TrackSeen(d) /\ UNCHANGED <<latest, inserted, modified, workload>>
    \/ \E k \in MergeTickers : get_prices(k) /\ UNCHANGED hist
    \/ \E k \in MergeTickers : get_company_news(k) /\ UNCHANGED hist

SpecMerge == Init /\ [][NextMerge]_vars

-----------------------------------------------------------------------------
(* Specification SpecAppend: what one set call does to the stored list.    *)
(* One ticker, one category, every list of at most MaxLen records.         *)

NextAppend ==
    \/ \E k \in MergeTickers : \E d \in MergeData("prices") :
          set_prices(k, d) /\ TrackCall(d) /\ UNCHANGED <<seen, inserted, modified, workload>>
    \/ \E k \in MergeTickers : get_prices(k) /\ UNCHANGED hist

SpecAppend == Init /\ [][NextAppend]_vars

-----------------------------------------------------------------------------
(* Specification SpecStale: writes after the expiry instant. One ticker,   *)
(* one category, two different records, the clock.                         *)

StaleData == {<<Rec("prices", 1, 10)>>, <<Rec("prices", 2, 20)>>}

NextStale ==
    \/ \E k \in ExpiryTickers : \E d \in StaleData :
          set_prices(k, d) /\ TrackLive(d) /\ UNCHANGED <<seen, inserted, modified, workload>>
    \/ (\E k \in ExpiryTickers : get_prices(k)) /\ UNCHANGED hist
    \/ Tick /\ UNCHANGED hist

SpecStale == Init /\ [][NextStale]_vars

-----------------------------------------------------------------------------
(* Specification SpecWrite: what a set call leaves alone. More tickers     *)
(* than MAX_CACHE_SIZE, two categories, the TTL, the clock.                *)

WriteTickers == Tickers

NextWrite ==
    \/ (\E k \in WriteTickers : \E d \in ExpiryData("company_news") :
           set_company_news(k, d)) /\ UNCHANGED hist
    \/ (\E k \in WriteTickers : \E d \in ExpiryData("line_items") :
           set_line_items(k, d)) /\ UNCHANGED hist
    \/ (\E h \in HoursChoices : set_ttl(h)) /\ UNCHANGED hist
    \/ TickUpTo(FrameMaxTime) /\ UNCHANGED hist

SpecWrite == Init /\ [][NextWrite]_vars

-----------------------------------------------------------------------------
(* Specification SpecShared: one ticker written in two categories.         *)

SharedTickers == {"AAPL"}

SharedHist == TrackLatest /\ UNCHANGED <<seen, inserted, modified, workload>>

NextShared ==
    \/ (\E k \in SharedTickers : \E d \in ExpiryData("prices") : set_prices(k, d)) /\ SharedHist
    \/ (\E k \in SharedTickers : \E d \in ExpiryData("line_items") : set_line_items(k, d))
          /\ SharedHist
    \/ (\E k \in SharedTickers : get_prices(k)) /\ SharedHist
    \/ (\E k \in SharedTickers : get_line_items(k)) /\ SharedHist
    \/ (\E h \in HoursChoices : set_ttl(h)) /\ UNCHANGED hist
    \/ Tick /\ UNCHANGED hist

SpecShared == Init /\ [][NextShared]_vars

-----------------------------------------------------------------------------
(* Specification SpecEvict: the size limit. More tickers than              *)
(* MAX_CACHE_SIZE, two categories, no clock.                               *)

EvictTickers == Tickers

EvictHist == TrackInserted /\ UNCHANGED <<seen, latest, modified, workload>>

NextEvict ==
    \/ (\E k \in EvictTickers : \E d \in ExpiryData("prices") : set_prices(k, d)) /\ EvictHist
    \/ (\E k \in EvictTickers : \E d \in ExpiryData("insider_trades") : set_insider_trades(k, d))
          /\ EvictHist
    \/ (\E k \in EvictTickers : get_prices(k)) /\ EvictHist
    \/ (\E k \in EvictTickers : get_insider_trades(k)) /\ EvictHist

SpecEvict == Init /\ [][NextEvict]_vars

-----------------------------------------------------------------------------
(* Specification SpecSnap: snapshots. One ticker, two categories, the TTL, *)
(* the clock, the snapshot file and a second instance.                     *)

SnapTickers == {"AAPL"}

SnapHist == TrackModified /\ UNCHANGED <<seen, latest, inserted, workload>>

NextSnap ==
    \/ (\E k \in SnapTickers : \E d \in ExpiryData("prices") : set_prices(k, d)) /\ SnapHist
    \/ (\E k \in SnapTickers : \E d \in ExpiryData("financial_metrics") :
           set_financial_metrics(k, d)) /\ SnapHist
    \/ (\E k \in SnapTickers : get_prices(k)) /\ SnapHist
    \/ (\E k \in SnapTickers : get_financial_metrics(k)) /\ SnapHist
    \/ (\E h \in HoursChoices : set_ttl(h)) /\ SnapHist
    \/ save_to_disk /\ SnapHist
    \/ load_from_disk /\ SnapHist
    \/ load_into_fresh /\ SnapHist
    \/ Tick /\ UNCHANGED hist

SpecSnap == Init /\ [][NextSnap]_vars

-----------------------------------------------------------------------------
(* Specification SpecFrame: what a call leaves alone. Two tickers, three   *)
(* categories, the TTL, the clock.                                         *)

FrameTickers == {"AAPL", "MSFT"}

NextFrame ==
    \/ (\E k \in FrameTickers : \E d \in ExpiryData("financial_metrics") :
           set_financial_metrics(k, d)) /\ UNCHANGED hist
    \/ (\E k \in FrameTickers : \E d \in ExpiryData("insider_trades") :
           set_insider_trades(k, d)) /\ UNCHANGED hist
    \/ (\E k \in FrameTickers : \E d \in ExpiryData("company_news") :
           set_company_news(k, d)) /\ UNCHANGED hist
    \/ (\E k \in FrameTickers : get_financial_metrics(k)) /\ UNCHANGED hist
    \/ (\E k \in FrameTickers : get_insider_trades(k)) /\ UNCHANGED hist
    \/ (\E k \in FrameTickers : get_company_news(k)) /\ UNCHANGED hist
    \/ (\E h \in HoursChoices : set_ttl(h)) /\ UNCHANGED hist
    \/ TickUpTo(FrameMaxTime) /\ UNCHANGED hist

SpecFrame == Init /\ [][NextFrame]_vars

-----------------------------------------------------------------------------
(* Specification SpecReload: loading into a cache that holds data. Two     *)
(* tickers, two categories, the TTL, the snapshot file; no clock, so only  *)
(* a load can remove an entry.                                             *)

ReloadTickers == {"AAPL", "MSFT"}

ReloadHist == TrackLatestOnly /\ UNCHANGED <<seen, inserted, modified, workload>>

NextReload ==
    \/ (\E k \in ReloadTickers : \E d \in ExpiryData("prices") : set_prices(k, d))
          /\ ReloadHist
    \/ (\E k \in ReloadTickers : \E d \in ExpiryData("financial_metrics") :
           set_financial_metrics(k, d)) /\ ReloadHist
    \/ (\E h \in HoursChoices : set_ttl(h)) /\ UNCHANGED hist
    \/ save_to_disk /\ UNCHANGED hist
    \/ load_from_disk /\ UNCHANGED hist

SpecReload == Init /\ [][NextReload]_vars

-----------------------------------------------------------------------------
(* The public methods line by line, called by threads. A thread enters     *)
(* `with self._lock`, runs the lines of the body one step each, and leaves *)
(* the with block, normally or with the error the body raised.             *)

\* a variant of CanAcquire for a lock that never blocks
CanAcquire_Always(t) == thr[t].pc = "acquire"

\* a variant of CanAcquire in which save_to_disk does not wait for the lock
CanAcquire_SaveUnlocked(t) == thr[t].op = "save" \/ lock.owner = "" \/ lock.owner = t

\* a variant of CanAcquire in which set_* does not wait for the lock
CanAcquire_SetUnlocked(t) == thr[t].op = "set" \/ lock.owner = "" \/ lock.owner = t

\* a variant of CanAcquire for a lock that is not reentrant (threading.Lock)
CanAcquire_NotReentrant(t) == lock.owner = ""

\* RLock.acquire succeeds when no thread owns the lock or the caller owns it
CanAcquire(t) == lock.owner = "" \/ lock.owner = t

\* the first line of the body of each method
FirstLine(op) ==
    CASE op = "set" -> "set_read"
      [] op = "get" -> "get_check"
      [] op = "set_ttl" -> "ttl_assign"
      [] op = "save" -> "save_dump"
      [] op = "load" -> "load_open"

Invoke(t, op, c, key, data, hours) ==
    /\ thr[t].pc = "idle"
    /\ thr' = [thr EXCEPT ![t] = [IdleThread EXCEPT !.pc = "acquire", !.op = op, !.cat = c,
                                                    !.key = key, !.data = data, !.hours = hours]]
    /\ UNCHANGED <<_cache, now, disk, fresh, last, lock>>

\* a thread calls get_<c>(ticker), set_<c>(ticker, data), set_ttl, save_to_disk, load_from_disk
CallGet(t, c, ticker) == Invoke(t, "get", c, ticker, <<>>, 0)
CallSet(t, c, ticker, data) == Invoke(t, "set", c, ticker, data, 0)
CallSetTtl(t, hours) == Invoke(t, "set_ttl", "", "", <<>>, hours)
CallSave(t) == Invoke(t, "save", "", "", <<>>, 0)
CallLoad(t) == Invoke(t, "load", "", "", <<>>, 0)

\* with self._lock: __enter__
Acquire(t) ==
    /\ thr[t].pc = "acquire"
    /\ CanAcquire(t)
    /\ lock' = [owner |-> t, count |-> lock.count + 1]
    /\ thr' = [thr EXCEPT ![t].pc = FirstLine(thr[t].op)]
    /\ UNCHANGED <<_cache, now, disk, fresh, last>>

\* a variant of Release in which an exception leaves the with block without releasing
Release_HeldOnError(t) ==
    /\ thr[t].pc = "release"
    /\ lock' = IF thr[t].raised # "" THEN lock
               ELSE IF lock.count = 1 THEN [owner |-> "", count |-> 0]
               ELSE [lock EXCEPT !.count = @ - 1]
    /\ last' = [op |-> thr[t].op, cat |-> thr[t].cat, key |-> thr[t].key, at |-> now,
                ret |-> thr[t].ret, raised |-> thr[t].raised]
    /\ thr' = [thr EXCEPT ![t] = IdleThread]
    /\ UNCHANGED <<_cache, now, disk, fresh>>

\* with self._lock: __exit__, on return and on an exception alike; the call is over
Release(t) ==
    /\ thr[t].pc = "release"
    /\ lock' = IF lock.count = 1 THEN [owner |-> "", count |-> 0]
               ELSE [lock EXCEPT !.count = @ - 1]
    /\ last' = [op |-> thr[t].op, cat |-> thr[t].cat, key |-> thr[t].key, at |-> now,
                ret |-> thr[t].ret, raised |-> thr[t].raised]
    /\ thr' = [thr EXCEPT ![t] = IdleThread]
    /\ UNCHANGED <<_cache, now, disk, fresh>>

Line(t, pc) == thr[t].pc = pc

\* line 1 of a set_* body, its argument: self._X_cache.get(ticker) is read ...
StepSetRead(t) ==
    /\ Line(t, "set_read")
    /\ thr' = [thr EXCEPT ![t].pc = "set_merge",
                          ![t].existing = DictGet(_cache[Attr(thr[t].cat)], thr[t].key)]
    /\ UNCHANGED <<_cache, now, disk, fresh, last, lock>>

\* ... and the list merged from it is assigned to self._X_cache[ticker],
\* unless _merge_data raises, which leaves the with block before the assignment
StepSetMerge(t) ==
    LET e == _merge_data_raised(thr[t].existing, thr[t].data, KeyField(thr[t].cat))
    IN /\ Line(t, "set_merge")
       /\ IF e # ""
          THEN /\ _cache' = _cache
               /\ thr' = [thr EXCEPT ![t].pc = "release", ![t].raised = e,
                                     ![t].existing = None]
          ELSE /\ _cache' = SetAssign(_cache, thr[t].cat, thr[t].key,
                                      thr[t].existing, thr[t].data)
               /\ thr' = [thr EXCEPT ![t].pc = "set_expiry", ![t].existing = None]
       /\ UNCHANGED <<now, disk, fresh, last, lock>>

StepSetExpiry(t) ==
    /\ Line(t, "set_expiry")
    /\ _cache' = SetExpiry(_cache, thr[t].key, now)
    /\ thr' = [thr EXCEPT ![t].pc = "set_enforce"]
    /\ UNCHANGED <<now, disk, fresh, last, lock>>

StepSetEnforce(t) ==
    LET r == SetEnforce(_cache, thr[t].cat)
    IN /\ Line(t, "set_enforce")
       /\ _cache' = r.self
       /\ thr' = [thr EXCEPT ![t].pc = "release", ![t].raised = r.raised]
       /\ UNCHANGED <<now, disk, fresh, last, lock>>

\* if self._is_expired(ticker): ... else: return self._X_cache.get(ticker)
StepGetCheck(t) ==
    /\ Line(t, "get_check")
    /\ thr' = IF _is_expired(_cache, thr[t].key, now)
              THEN [thr EXCEPT ![t].pc = "get_pop_store"]
              ELSE [thr EXCEPT ![t].pc = "release",
                               ![t].ret = DictGet(_cache[Attr(thr[t].cat)], thr[t].key)]
    /\ UNCHANGED <<_cache, now, disk, fresh, last, lock>>

StepGetPopStore(t) ==
    /\ Line(t, "get_pop_store")
    /\ _cache' = GetPopStore(_cache, thr[t].cat, thr[t].key)
    /\ thr' = [thr EXCEPT ![t].pc = "get_pop_expiry"]
    /\ UNCHANGED <<now, disk, fresh, last, lock>>

\* self._cache_expiry.pop(ticker, None); return None
StepGetPopExpiry(t) ==
    /\ Line(t, "get_pop_expiry")
    /\ _cache' = GetPopExpiry(_cache, thr[t].key)
    /\ thr' = [thr EXCEPT ![t].pc = "release", ![t].ret = None]
    /\ UNCHANGED <<now, disk, fresh, last, lock>>

StepSetTtl(t) ==
    /\ Line(t, "ttl_assign")
    /\ _cache' = set_ttl_body(_cache, thr[t].hours)
    /\ thr' = [thr EXCEPT ![t].pc = "release"]
    /\ UNCHANGED <<now, disk, fresh, last, lock>>

\* open(path, "wb") creates or empties the file; then the dictionary for
\* pickle.dump is built from the instance: first the five dictionaries ...
StepSaveDump(t) ==
    /\ Line(t, "save_dump")
    /\ disk' = EmptyFile
    /\ thr' = [thr EXCEPT ![t].pc = "save_write", ![t].buf = Some(Snapshot(_cache))]
    /\ UNCHANGED <<_cache, now, fresh, last, lock>>

\* ... then _cache_expiry and _ttl; the file is complete when it is closed
StepSaveWrite(t) ==
    /\ Line(t, "save_write")
    /\ disk' = Some([thr[t].buf[1] EXCEPT !.expiry = _cache._cache_expiry, !.ttl = _cache._ttl])
    /\ thr' = [thr EXCEPT ![t].pc = "release", ![t].buf = None]
    /\ UNCHANGED <<_cache, now, fresh, last, lock>>

\* open(path, "rb") and pickle.load; FileNotFoundError is caught and passed,
\* the EOFError of a file without bytes leaves the with block
StepLoadOpen(t) ==
    /\ Line(t, "load_open")
    /\ thr' = IF disk = None
              THEN [thr EXCEPT ![t].pc = "release"]
              ELSE IF IsEmptyFile(disk)
              THEN [thr EXCEPT ![t].pc = "release", ![t].raised = load_raised(disk)]
              ELSE [thr EXCEPT ![t].pc = "load_stores", ![t].buf = disk]
    /\ UNCHANGED <<_cache, now, disk, fresh, last, lock>>

StepLoadStores(t) ==
    /\ Line(t, "load_stores")
    /\ _cache' = LoadStores(_cache, thr[t].buf[1])
    /\ thr' = [thr EXCEPT ![t].pc = "load_rest"]
    /\ UNCHANGED <<now, disk, fresh, last, lock>>

StepLoadRest(t) ==
    /\ Line(t, "load_rest")
    /\ _cache' = LoadRest(_cache, thr[t].buf[1])
    /\ thr' = [thr EXCEPT ![t].pc = "release", ![t].buf = None]
    /\ UNCHANGED <<now, disk, fresh, last, lock>>

\* seen, for threads: a finished set adds the dedup values of its data; the
\* pop of an expired get empties the list
TrackSeenDone(t) ==
    seen' = IF thr[t].op = "set"
            THEN LET old == seen[thr[t].cat][thr[t].key]
                     new == FirstSeen(thr[t].data, KeyField(thr[t].cat))
                 IN [seen EXCEPT ![thr[t].cat][thr[t].key] =
                       old \o SelectSeq(new, LAMBDA x : \A i \in DOMAIN old : old[i] # x)]
            ELSE seen

TrackSeenPopped(t) == seen' = [seen EXCEPT ![thr[t].cat][thr[t].key] = <<>>]

-----------------------------------------------------------------------------
(* Specification SpecRace: two threads setting and getting one ticker of   *)
(* one category, each set with a record of its own.                        *)

RaceTickers == {"AAPL"}
RaceData == {<<Rec("prices", 1, 10)>>, <<Rec("prices", 2, 10)>>, <<Rec("prices", 2, 20)>>}

RaceRest == UNCHANGED <<latest, inserted, modified, workload>>

NextRace ==
    \/ (\E t \in Threads : \E k \in RaceTickers : \E d \in RaceData :
           CallSet(t, "prices", k, d)) /\ UNCHANGED hist
    \/ (\E t \in Threads : \E k \in RaceTickers : CallGet(t, "prices", k)) /\ UNCHANGED hist
    \/ (\E t \in Threads : Acquire(t)) /\ UNCHANGED hist
    \/ (\E t \in Threads : StepSetRead(t)) /\ UNCHANGED hist
    \/ (\E t \in Threads : StepSetMerge(t)) /\ UNCHANGED hist
    \/ (\E t \in Threads : StepSetExpiry(t)) /\ UNCHANGED hist
    \/ (\E t \in Threads : StepSetEnforce(t)) /\ UNCHANGED hist
    \/ (\E t \in Threads : StepGetCheck(t)) /\ UNCHANGED hist
    \/ (\E t \in Threads : StepGetPopStore(t) /\ TrackSeenPopped(t)) /\ RaceRest
    \/ (\E t \in Threads : StepGetPopExpiry(t)) /\ UNCHANGED hist
    \/ (\E t \in Threads : Release(t) /\ TrackSeenDone(t)) /\ RaceRest
    \/ TickUpTo(ConcMaxTime) /\ UNCHANGED hist

SpecRace == Init /\ [][NextRace]_vars

-----------------------------------------------------------------------------
(* Specification SpecLive: two threads under fair scheduling. The threads  *)
(* are scheduled fairly: a thread that has the lock keeps running (weak    *)
(* fairness of the lines of a body) and a thread waiting for a lock that   *)
(* stays free takes it (weak fairness of the acquisition). The lock itself *)
(* is a threading.RLock, which hands over in no particular order: nothing  *)
(* is assumed of a thread whose lock is taken again by another thread.     *)
(* A run has one of three workloads: "files", set on more tickers than     *)
(* MAX_CACHE_SIZE, so that the size check raises, get, save_to_disk and    *)
(* load_from_disk, no clock; "clock", all five kinds of calls on one       *)
(* ticker while time passes, so that a get finds the ticker expired; or    *)
(* "errors", set, get, save_to_disk and load_from_disk on one ticker, with *)
(* records that lack the dedup field, so that the merge raises, and a file *)
(* that an earlier process left empty (its save_to_disk ended after        *)
(* open(path, "wb"), line 144), so that the load raises.                   *)

LiveTickers == Tickers
LiveHours == {2}
LiveWorkloads == {"files", "clock", "errors"}

\* a record without the dedup field of its category
NoKeyRecord == [value |-> 10]

\* the lists the callers pass to set_prices in a run of workload w
LiveData(w) ==
    IF w = "errors"
    THEN ExpiryData("prices") \cup {<<NoKeyRecord>>}
    ELSE ExpiryData("prices")

InitLive ==
    \E w \in LiveWorkloads : Start(w, IF w = "errors" THEN EmptyFile ELSE None)

\* the next line of the body thread t is in, or its leaving the with block
BodyStep(t) ==
    \/ StepSetRead(t) \/ StepSetMerge(t) \/ StepSetExpiry(t) \/ StepSetEnforce(t)
    \/ StepGetCheck(t) \/ StepGetPopStore(t) \/ StepGetPopExpiry(t)
    \/ StepSetTtl(t)
    \/ StepSaveDump(t) \/ StepSaveWrite(t)
    \/ StepLoadOpen(t) \/ StepLoadStores(t) \/ StepLoadRest(t)
    \/ Release(t)

NextLive ==
    \/ (\E t \in Threads : \E k \in LiveTickers : \E d \in LiveData(workload) :
           (workload = "files" \/ k \in ExpiryTickers) /\ CallSet(t, "prices", k, d))
          /\ UNCHANGED hist
    \/ (\E t \in Threads : \E k \in ExpiryTickers : CallGet(t, "prices", k)) /\ UNCHANGED hist
    \/ (\E t \in Threads : \E h \in LiveHours : workload = "clock" /\ CallSetTtl(t, h))
          /\ UNCHANGED hist
    \/ (\E t \in Threads : CallSave(t)) /\ UNCHANGED hist
    \/ (\E t \in Threads : CallLoad(t)) /\ UNCHANGED hist
    \/ (\E t \in Threads : Acquire(t)) /\ UNCHANGED hist
    \/ (\E t \in Threads : StepSetRead(t)) /\ UNCHANGED hist
    \/ (\E t \in Threads : StepSetMerge(t)) /\ UNCHANGED hist
    \/ (\E t \in Threads : StepSetExpiry(t)) /\ UNCHANGED hist
    \/ (\E t \in Threads : StepSetEnforce(t)) /\ UNCHANGED hist
    \/ (\E t \in Threads : StepGetCheck(t)) /\ UNCHANGED hist
    \/ (\E t \in Threads : StepGetPopStore(t)) /\ UNCHANGED hist
    \/ (\E t \in Threads : StepGetPopExpiry(t)) /\ UNCHANGED hist
    \/ (\E t \in Threads : StepSetTtl(t)) /\ UNCHANGED hist
    \/ (\E t \in Threads : StepSaveDump(t)) /\ UNCHANGED hist
    \/ (\E t \in Threads : StepSaveWrite(t)) /\ UNCHANGED hist
    \/ (\E t \in Threads : StepLoadOpen(t)) /\ UNCHANGED hist
    \/ (\E t \in Threads : StepLoadStores(t)) /\ UNCHANGED hist
    \/ (\E t \in Threads : StepLoadRest(t)) /\ UNCHANGED hist
    \/ (\E t \in Threads : Release(t)) /\ UNCHANGED hist
    \/ (workload = "clock" /\ TickUpTo(ConcMaxTime)) /\ UNCHANGED hist

SpecLive ==
    /\ InitLive /\ [][NextLive]_vars
    /\ \A t \in Threads : WF_vars(BodyStep(t) /\ UNCHANGED hist)
    /\ \A t \in Threads : WF_vars(Acquire(t) /\ UNCHANGED hist)

-----------------------------------------------------------------------------
(* Specification SpecReent: a caller that takes the lock of the cache      *)
(* itself and calls public methods while holding it; another thread calls  *)
(* the cache meanwhile. One ticker, one category, no clock.                *)

\* a caller enters `with cache._lock:` around its calls (it waits while it cannot)
OuterAcquire(t) ==
    /\ thr[t].pc = "idle"
    /\ CanAcquire(t)
    /\ lock.count + 1 < MaxDepth
    /\ lock' = [owner |-> t, count |-> lock.count + 1]
    /\ UNCHANGED <<_cache, now, disk, fresh, last, thr>>

\* the caller leaves its `with cache._lock:` block
OuterRelease(t) ==
    /\ thr[t].pc = "idle"
    /\ lock.owner = t
    /\ lock' = IF lock.count = 1 THEN [owner |-> "", count |-> 0]
               ELSE [lock EXCEPT !.count = @ - 1]
    /\ UNCHANGED <<_cache, now, disk, fresh, last, thr>>

NextReent ==
    \/ (\E t \in Threads : OuterAcquire(t)) /\ UNCHANGED hist
    \/ (\E t \in Threads : OuterRelease(t)) /\ UNCHANGED hist
    \/ (\E t \in Threads : \E k \in ExpiryTickers : \E d \in RaceData :
           CallSet(t, "prices", k, d)) /\ UNCHANGED hist
    \/ (\E t \in Threads : \E k \in ExpiryTickers : CallGet(t, "prices", k)) /\ UNCHANGED hist
    \/ (\E t \in Threads : Acquire(t)) /\ UNCHANGED hist
    \/ (\E t \in Threads : StepSetRead(t)) /\ UNCHANGED hist
    \/ (\E t \in Threads : StepSetMerge(t)) /\ UNCHANGED hist
    \/ (\E t \in Threads : StepSetExpiry(t)) /\ UNCHANGED hist
    \/ (\E t \in Threads : StepSetEnforce(t)) /\ UNCHANGED hist
    \/ (\E t \in Threads : StepGetCheck(t)) /\ UNCHANGED hist
    \/ (\E t \in Threads : Release(t)) /\ UNCHANGED hist

SpecReent == Init /\ [][NextReent]_vars

-----------------------------------------------------------------------------
(* Specification SpecConc: two threads calling the cache concurrently.     *)

ConcTickers == {"AAPL"}
ConcCategories == {"prices", "company_news"}
ConcHours == {2}

NextConc ==
    \/ (\E t \in Threads : \E c \in ConcCategories : \E k \in ConcTickers : CallGet(t, c, k))
          /\ UNCHANGED hist
    \/ (\E t \in Threads : \E c \in ConcCategories : \E k \in ConcTickers :
           \E d \in ExpiryData(c) : CallSet(t, c, k, d)) /\ UNCHANGED hist
    \/ (\E t \in Threads : \E h \in ConcHours : CallSetTtl(t, h)) /\ UNCHANGED hist
    \/ (\E t \in Threads : CallSave(t)) /\ UNCHANGED hist
    \/ (\E t \in Threads : CallLoad(t)) /\ UNCHANGED hist
    \/ (\E t \in Threads : Acquire(t)) /\ UNCHANGED hist
    \/ (\E t \in Threads : StepSetRead(t)) /\ UNCHANGED hist
    \/ (\E t \in Threads : StepSetMerge(t)) /\ UNCHANGED hist
    \/ (\E t \in Threads : StepSetExpiry(t)) /\ UNCHANGED hist
    \/ (\E t \in Threads : StepSetEnforce(t)) /\ UNCHANGED hist
    \/ (\E t \in Threads : StepGetCheck(t)) /\ UNCHANGED hist
    \/ (\E t \in Threads : StepGetPopStore(t)) /\ UNCHANGED hist
    \/ (\E t \in Threads : StepGetPopExpiry(t)) /\ UNCHANGED hist
    \/ (\E t \in Threads : StepSetTtl(t)) /\ UNCHANGED hist
    \/ (\E t \in Threads : StepSaveDump(t)) /\ UNCHANGED hist
    \/ (\E t \in Threads : StepSaveWrite(t)) /\ UNCHANGED hist
    \/ (\E t \in Threads : StepLoadOpen(t)) /\ UNCHANGED hist
    \/ (\E t \in Threads : StepLoadStores(t)) /\ UNCHANGED hist
    \/ (\E t \in Threads : StepLoadRest(t)) /\ UNCHANGED hist
    \/ (\E t \in Threads : Release(t)) /\ UNCHANGED hist
    \/ TickUpTo(ConcMaxTime) /\ UNCHANGED hist

SpecConc == Init /\ [][NextConc]_vars

-----------------------------------------------------------------------------
(* Claims *)

StoredList(c, k) == DictGet(_cache[Attr(c)], k)

\* what get_<c>(k) would return if it were called in this state
WouldGet(self, c, k) == get_body(self, c, k, now).ret

\* C1 (SpecMerge). Dedup invariant: whatever the new_data lists of the set
\* calls on a (category, ticker) were, the stored list holds exactly one record
\* per distinct value of the dedup field, in first-seen order.
C1_DedupInvariant ==
    \A c \in Categories : \A k \in Tickers :
        StoredList(c, k) # None =>
            FieldsOf(StoredList(c, k)[1], KeyField(c)) = seen[c][k]

\* the instant at which the latest set call on ticker k makes k expire
Due(k) == latest[k][1].at + latest[k][1].ttl

\* C2 (Spec). Expiry: after a set(category, ticker) at t0 under TTL T and no
\* later set for the ticker, a get(category, ticker) strictly after t0 + T
\* returns None and one before t0 + T returns the stored list.
C2_Expiry ==
    (/\ last.op = "get"
     /\ latest[last.key] # None
     /\ latest[last.key][1].cat = last.cat)
    => /\ last.at > Due(last.key) => last.ret = None
       /\ last.at < Due(last.key) => last.ret = latest[last.key][1].list

\* C3 (Spec). Staleness covers every category: once the expiry instant of a
\* ticker has passed and no set for it has happened since, a get returns None
\* in every category, in whatever order the categories are read.
C3_StaleEverywhere ==
    (/\ last.op = "get"
     /\ latest[last.key] # None
     /\ last.at > Due(last.key))
    => last.ret = None

\* C4 (SpecEvict). Size bound: no cache dictionary holds more than
\* MAX_CACHE_SIZE tickers once a set call has finished.
C4_SizeBound ==
    \A c \in Categories : Len(_cache[Attr(c)]) <= MAX_CACHE_SIZE

IsInjective(q) == \A i, j \in DOMAIN q : q[i] = q[j] => i = j

\* C5 (SpecEvict). FIFO eviction: after set calls on MAX_CACHE_SIZE + 1 distinct
\* tickers of one category, the ticker set first is unreadable and the other
\* MAX_CACHE_SIZE tickers are readable.
C5_FifoEviction ==
    \A c \in Categories :
        (Len(inserted[c]) = MAX_CACHE_SIZE + 1 /\ IsInjective(inserted[c]))
        => /\ WouldGet(_cache, c, inserted[c][1]) = None
           /\ \A i \in 2..(MAX_CACHE_SIZE + 1) : WouldGet(_cache, c, inserted[c][i]) # None

\* the premise of C6: set_prices at t0, then set_line_items at t0 + D with
\* 0 < D < TTL, then, as the first get after it, get_prices later than t0 + TTL
C6_Scenario ==
    /\ last.op = "get" /\ last.cat = "prices"
    /\ latest[last.key] # None
    /\ LET l == latest[last.key][1]
       IN /\ l.cat = "line_items"
          /\ l.gets = 1
          /\ l.before # None
          /\ l.before[1].cat = "prices"
          /\ l.before[1].ttl = l.ttl
          /\ l.before[1].at < l.at
          /\ l.at < l.before[1].at + l.ttl
          /\ last.at > l.before[1].at + l.ttl

\* C6 as stated (SpecShared). Shared expiry: in that scenario get_prices returns None.
C6_SharedExpiryAbsent == C6_Scenario => last.ret = None

\* C6 as amended (SpecShared). In that scenario get_prices returns None exactly
\* when it is called later than the instant of set_line_items plus the TTL, and
\* the stored prices list otherwise.
C6_SharedExpiryRefreshed ==
    C6_Scenario =>
        /\ last.ret = None <=> last.at > Due(last.key)
        /\ last.ret # None => last.ret = latest[last.key][1].before[1].list

C6_Witness == C6_Scenario /\ last.ret = None

\* C7 (SpecSnap). Snapshot round-trip: after save_to_disk and load_from_disk of
\* the file into a new instance, the new instance gives the same get result as
\* the original for every (category, ticker), and has the same TTL.
C7_RoundTrip ==
    (fresh # None /\ last.op = "load_fresh" /\ ~modified)
    => /\ \A c \in Categories : \A k \in Tickers :
              WouldGet(fresh[1], c, k) = WouldGet(_cache, c, k)
       /\ fresh[1]._ttl = _cache._ttl

C7_Witness ==
    /\ fresh # None /\ last.op = "load_fresh" /\ ~modified
    /\ _cache._ttl # DEFAULT_TTL_HOURS
    /\ WouldGet(_cache, "prices", "AAPL") # None
    /\ StoredList("financial_metrics", "AAPL") # None
    /\ WouldGet(_cache, "financial_metrics", "AAPL") # None

\* C8 (SpecSnap). Missing snapshot file: load_from_disk with no file raises
\* nothing and leaves the five dictionaries, the expiry map and the TTL as they
\* were, so every get returns what it returned before.
C8_MissingFile ==
    [][(disk = None /\ load_from_disk)
       => /\ _cache' = _cache
          /\ last'.raised = ""
          /\ \A c \in Categories : \A k \in Tickers :
                 WouldGet(_cache', c, k) = WouldGet(_cache, c, k)]_vars

C8_Witness ==
    /\ last.op = "load" /\ disk = None /\ last.raised = ""
    /\ StoredList("prices", "AAPL") # None
    /\ _cache._ttl # DEFAULT_TTL_HOURS

\* C10 (SpecEvict). Eviction never errors: a set call, also one that pushes a
\* dictionary above MAX_CACHE_SIZE, raises nothing.
C10_EvictionSilent ==
    last.op = "set" => last.raised = ""

\* a thread is inside the body of a cache method: past the lock, not yet out of it
InBody(t) == thr[t].pc \notin {"idle", "acquire"}

\* C9 (SpecConc). Global serialization: whatever methods and categories the
\* threads call, at most one thread is inside the body of a method at a time.
C9_OneInBody ==
    \A t1, t2 \in Threads : (InBody(t1) /\ InBody(t2)) => t1 = t2

C9_Witness ==
    /\ thr["T1"].pc = "set_expiry" /\ thr["T1"].cat = "prices"
    /\ thr["T2"].pc = "acquire" /\ thr["T2"].op = "get" /\ thr["T2"].cat = "company_news"

\* C11 (Spec). Expiry refresh: right after a set call of any category at time
\* t, the expiry instant of its ticker is t plus the TTL in force at the call,
\* whatever instant an earlier set of another category had recorded.
C11_ExpiryRefreshed ==
    last.op = "set" =>
        /\ last.key \in DOMAIN _cache._cache_expiry
        /\ _cache._cache_expiry[last.key] = last.at + _cache._ttl

C11_Witness ==
    /\ last.op = "set" /\ last.cat = "insider_trades" /\ last.at = 3
    /\ _cache._ttl = 2
    /\ StoredList("financial_metrics", last.key) # None
    /\ _cache._cache_expiry[last.key] = 5

\* the instant recorded for ticker k has passed
Overdue(k) == k \in DOMAIN _cache._cache_expiry /\ now > _cache._cache_expiry[k]

\* C12 (SpecFrame). Scope of an expired read: a get of category c on an
\* expired ticker k removes k from the dictionary of c and from the expiry
\* map; the other categories, the other tickers' entries and expiry instants
\* and the TTL stay as they were.
C12_ExpiredReadScope ==
    [][\A c \in Categories : \A k \in FrameTickers :
          (Get(c, k) /\ Overdue(k)) =>
              /\ k \notin DictKeys(_cache'[Attr(c)])
              /\ k \notin DOMAIN _cache'._cache_expiry
              /\ \A c2 \in Categories \ {c} : _cache'[Attr(c2)] = _cache[Attr(c2)]
              /\ \A k2 \in Tickers \ {k} :
                    /\ DictGet(_cache'[Attr(c)], k2) = DictGet(_cache[Attr(c)], k2)
                    /\ (k2 \in DOMAIN _cache'._cache_expiry) = (k2 \in DOMAIN _cache._cache_expiry)
                    /\ k2 \in DOMAIN _cache._cache_expiry =>
                          _cache'._cache_expiry[k2] = _cache._cache_expiry[k2]
              /\ _cache'._ttl = _cache._ttl]_vars

\* an expired read of insider_trades has just left the ticker's other
\* categories and the other ticker in place
C12_Witness ==
    /\ last.op = "get" /\ last.cat = "insider_trades" /\ last.key = "AAPL"
    /\ last.at = now /\ last.ret = None
    /\ StoredList("insider_trades", "AAPL") = None
    /\ "AAPL" \notin DOMAIN _cache._cache_expiry
    /\ StoredList("financial_metrics", "AAPL") # None
    /\ StoredList("insider_trades", "MSFT") # None
    /\ "MSFT" \in DOMAIN _cache._cache_expiry
    /\ _cache._ttl = 2

\* C13 (SpecAppend). Merge is append-only: after every set call the list
\* stored when it was called is a prefix of the list stored now, and the rest
\* of the list is the records of the call's data whose key field value was not
\* in the old list, in the order of the data.
C13_AppendOnly ==
    last.op = "set" =>
        LET call == latest[last.key][1]
            old == call.before
            new == ListOf(_cache[Attr(last.cat)], last.key)
            old_ids == {old[i][KeyField(last.cat)] : i \in 1..Len(old)}
            IsNew(r) == r[KeyField(last.cat)] \notin old_ids
        IN /\ Len(new) >= Len(old)
           /\ SubSeq(new, 1, Len(old)) = old
           /\ SubSeq(new, Len(old) + 1, Len(new)) = SelectSeq(call.data, IsNew)

\* a set on a stored list has skipped a record whose key field value was
\* stored with another payload and appended the other one
C13_Witness ==
    /\ last.op = "set" /\ last.cat = "prices" /\ last.key = "AAPL"
    /\ latest["AAPL"][1].before = <<Rec("prices", 1, 10), Rec("prices", 1, 20)>>
    /\ latest["AAPL"][1].data = <<Rec("prices", 1, 20), Rec("prices", 2, 10)>>
    /\ StoredList("prices", "AAPL")
          = Some(<<Rec("prices", 1, 10), Rec("prices", 1, 20), Rec("prices", 2, 10)>>)

\* C14 (Spec). set_ttl is not retroactive: a set_ttl call changes the TTL and
\* nothing else, and in every state the expiry instant of a ticker is the
\* instant of its latest set plus the TTL that was in force at that set,
\* whatever the TTL has been changed to since.
C14_TtlNotRetroactive ==
    [][/\ \A h \in HoursChoices :
             set_ttl(h) =>
                 /\ _cache'._ttl = h
                 /\ _cache'._cache_expiry = _cache._cache_expiry
                 /\ \A c \in Categories : _cache'[Attr(c)] = _cache[Attr(c)]
       /\ \A k \in ExpiryTickers :
             k \in DOMAIN _cache'._cache_expiry =>
                 /\ latest'[k] # None
                 /\ _cache'._cache_expiry[k] = latest'[k][1].at + latest'[k][1].ttl]_vars

\* the TTL was lowered from 2h to 1h after a set, and the ticker still
\* expires two hours after that set
C14_Witness ==
    /\ last.op = "set_ttl" /\ _cache._ttl = 1
    /\ latest["AAPL"] # None /\ latest["AAPL"][1].ttl = 2 /\ latest["AAPL"][1].at = 1
    /\ "AAPL" \in DOMAIN _cache._cache_expiry /\ _cache._cache_expiry["AAPL"] = 3
    /\ StoredList("prices", "AAPL") # None

\* C15 (SpecReload). load_from_disk replaces the state: after a load of an
\* existing file the five dictionaries, the expiry map and the TTL are those
\* of the file, so nothing that only the cache held before the load is left.
C15_LoadReplaces ==
    [][(disk # None /\ load_from_disk) =>
          /\ _cache'._prices_cache = disk[1].prices
          /\ _cache'._financial_metrics_cache = disk[1].financial_metrics
          /\ _cache'._line_items_cache = disk[1].line_items
          /\ _cache'._insider_trades_cache = disk[1].insider_trades
          /\ _cache'._company_news_cache = disk[1].company_news
          /\ _cache'._cache_expiry = disk[1].expiry
          /\ _cache'._ttl = disk[1].ttl]_vars

\* MSFT prices were set after the save, under another TTL, and the load has
\* removed them and their expiry and restored the saved TTL
C15_Witness ==
    /\ last.op = "load" /\ disk # None
    /\ latest["MSFT"] # None /\ latest["MSFT"][1].cat = "prices" /\ latest["MSFT"][1].ttl = 2
    /\ StoredList("prices", "MSFT") = None
    /\ "MSFT" \notin DOMAIN _cache._cache_expiry
    /\ StoredList("prices", "AAPL") # None
    /\ StoredList("financial_metrics", "AAPL") # None
    /\ _cache._ttl = 1

\* C16 (SpecConc). Consistent snapshot under concurrency: the file that
\* save_to_disk completes holds the five dictionaries, the expiry map and the
\* TTL of the cache as they are at that one instant, and at that instant no
\* other thread is inside the body of a call.
C16_SnapshotOfOneInstant ==
    [][\A t \in Threads :
          StepSaveWrite(t) =>
              /\ disk' = Some(Snapshot(_cache))
              /\ \A u \in Threads \ {t} : ~InBody(u)]_vars

\* T1 has written a snapshot of a filled cache while T2 was waiting to set
C16_Witness ==
    /\ thr["T1"].op = "save" /\ thr["T1"].pc = "release"
    /\ thr["T2"].op = "set" /\ thr["T2"].pc = "acquire"
    /\ disk = Some(Snapshot(_cache))
    /\ StoredList("prices", "AAPL") # None
    /\ StoredList("company_news", "AAPL") # None
    /\ "AAPL" \in DOMAIN _cache._cache_expiry
    /\ _cache._ttl = 2

\* no thread is inside the body of a call
Quiet == \A t \in Threads : ~InBody(t)

\* C17 (SpecRace). No lost update: whenever no call is in progress, the list
\* stored for a ticker has a record for every key field value handed to a set
\* call since the ticker last expired, one record each, and the ticker has a
\* stored list exactly when it has an expiry instant: the store update and
\* the expiry refresh of each call have taken effect together.
C17_NoLostUpdate ==
    Quiet =>
        \A k \in RaceTickers :
            LET list == ListOf(_cache._prices_cache, k)
            IN /\ FieldsOf(list, "time") = seen["prices"][k]
               /\ (k \in DictKeys(_cache._prices_cache)) = (k \in DOMAIN _cache._cache_expiry)

\* two set calls on the same ticker, each with a record of its own, are
\* over; both records are stored, under one expiry instant
C17_Witness ==
    /\ Quiet /\ last.op = "set"
    /\ thr["T1"].pc = "idle" /\ thr["T2"].pc = "idle"
    /\ StoredList("prices", "AAPL") = Some(<<Rec("prices", 2, 20), Rec("prices", 1, 10)>>)
    /\ seen["prices"]["AAPL"] = <<2, 1>>
    /\ _cache._cache_expiry["AAPL"] = 2

\* thread t waits for a lock it cannot get
Blocked(t) == thr[t].pc = "acquire" /\ ~CanAcquire(t)

\* the statement of C18 as the specification has it: under fair scheduling
\* every call a thread has made is eventually over. A call that waits for the
\* lock can be overtaken for ever by the calls of the other thread.
C18_EveryCallFinishes ==
    \A t \in Threads : (thr[t].pc # "idle") ~> (thr[t].pc = "idle")

\* C18 (SpecLive). Completion and lock release: under fair scheduling of the
\* threads every call that has entered its body is eventually over; when a
\* call is over, by return or by the error its body raised, its thread no
\* longer owns the lock; the lock is never owned by a thread that is not
\* inside a body, so that a thread waiting for the lock eventually finds it
\* free; and a thread that waits while the lock is free can enter.
C18_CompletionAndRelease ==
    /\ \A t \in Threads : InBody(t) ~> (thr[t].pc = "idle")
    /\ [][\A t \in Threads :
             (thr[t].pc # "idle" /\ thr'[t].pc = "idle") => lock'.owner # t]_vars
    /\ [](lock.owner # "" => (lock.count > 0 /\ InBody(lock.owner)))
    /\ \A t \in Threads : Blocked(t) ~> (lock.owner = "")
    /\ [](\A t \in Threads :
             (thr[t].pc = "acquire" /\ lock.owner = "") => ENABLED Acquire(t))

\* a set has ended with the KeyError of the merge, the lock is free and the
\* other thread, which was waiting to load the empty file, can enter
C18_Witness ==
    /\ last.op = "set" /\ last.raised = "KeyError"
    /\ lock.owner = "" /\ lock.count = 0
    /\ thr["T1"].pc = "idle"
    /\ thr["T2"].pc = "acquire" /\ thr["T2"].op = "load"
    /\ disk = EmptyFile

\* C19 (SpecReent). Reentrancy: a thread that holds the lock and calls a
\* public method can enter its body (the acquisition is enabled); a thread
\* stops owning the lock only when its outermost hold ends; and while a
\* thread owns the lock no other thread is inside a body.
C19_Reentrant ==
    /\ [](\A t \in Threads :
             /\ (thr[t].pc = "acquire" /\ lock.owner = t) => ENABLED Acquire(t)
             /\ lock.owner = t => \A u \in Threads \ {t} : ~InBody(u))
    /\ [][\A t \in Threads :
             (lock.owner = t /\ lock'.owner # t) => (lock.count = 1 /\ lock'.count = 0)]_vars

\* T1 holds the lock from outside and is inside a nested set, having stored
\* its record, while T2 waits to enter a call of its own
C19_Witness ==
    /\ lock.owner = "T1" /\ lock.count = 2
    /\ thr["T1"].op = "set" /\ thr["T1"].pc = "set_expiry"
    /\ StoredList("prices", "AAPL") # None
    /\ thr["T2"].pc = "acquire"

\* C20 (SpecFrame). A non-expired read is pure: a get of category c on a
\* ticker that has no expiry instant or has not passed it returns what the
\* dictionary of c holds for the ticker, None when it holds nothing, raises
\* no error, and leaves the five dictionaries, the expiry map and the TTL as
\* they were.
C20_PureRead ==
    [][\A c \in Categories : \A k \in FrameTickers :
          (Get(c, k) /\ ~Overdue(k)) =>
              /\ last'.ret = (IF \E i \in DOMAIN _cache[Attr(c)] : _cache[Attr(c)][i].k = k
                              THEN Some(ListOf(_cache[Attr(c)], k)) ELSE None)
              /\ last'.raised = ""
              /\ \A c2 \in Categories : _cache'[Attr(c2)] = _cache[Attr(c2)]
              /\ _cache'._cache_expiry = _cache._cache_expiry
              /\ _cache'._ttl = _cache._ttl]_vars

\* a read of company_news at the very instant of expiry has returned the list
\* and left the entry and the other ticker's state in place
C20_Witness ==
    /\ last.op = "get" /\ last.cat = "company_news" /\ last.key = "AAPL" /\ last.at = now
    /\ last.ret = Some(<<Rec("company_news", 1, 10)>>)
    /\ StoredList("company_news", "AAPL") = last.ret
    /\ "AAPL" \in DOMAIN _cache._cache_expiry /\ _cache._cache_expiry["AAPL"] = now
    /\ StoredList("insider_trades", "MSFT") # None
    /\ _cache._ttl = 2

\* C21 (SpecStale). Expired data is not resurrected by a later write: every
\* record a get returns was handed to a set call made since the expiry
\* instant of the ticker last passed, never only to set calls before it.
C21_NoResurrection ==
    (last.op = "get" /\ last.ret # None) =>
        /\ latest[last.key] # None
        /\ \A i \in DOMAIN last.ret[1] : last.ret[1][i] \in latest[last.key][1].recs

\* C22 (SpecWrite). Category independence of writes: a set of category c on
\* ticker k leaves the dictionaries of the other four categories, the TTL and
\* the expiry instants of the other tickers as they were; in the dictionary
\* of c another ticker keeps its list or is removed.
C22_WriteScope ==
    [][\A c \in {"company_news", "line_items"} : \A k \in WriteTickers :
       \A d \in ExpiryData(c) :
          (last'.op = "set" /\ Set(c, k, d)) =>
              /\ \A c2 \in Categories \ {c} : _cache'[Attr(c2)] = _cache[Attr(c2)]
              /\ _cache'._ttl = _cache._ttl
              /\ \A k2 \in Tickers \ {k} :
                    /\ (k2 \in DOMAIN _cache'._cache_expiry) = (k2 \in DOMAIN _cache._cache_expiry)
                    /\ k2 \in DOMAIN _cache._cache_expiry =>
                          _cache'._cache_expiry[k2] = _cache._cache_expiry[k2]
                    /\ \/ DictGet(_cache'[Attr(c)], k2) = DictGet(_cache[Attr(c)], k2)
                       \/ DictGet(_cache'[Attr(c)], k2) = None]_vars

\* a set of line_items on a third ticker, which ran into the size check, has
\* left company_news, the TTL and the older expiry of another ticker in place
C22_Witness ==
    /\ last.op = "set" /\ last.cat = "line_items" /\ last.key = "NVDA"
    /\ last.raised = "TypeError" /\ last.at = 1
    /\ _cache._ttl = 2
    /\ _cache._cache_expiry["NVDA"] = 3
    /\ "AAPL" \in DOMAIN _cache._cache_expiry /\ _cache._cache_expiry["AAPL"] = 1
    /\ StoredList("company_news", "AAPL") # None
    /\ StoredList("company_news", "NVDA") = None
    /\ StoredList("line_items", "AAPL") # None

====
